---- MODULE Spec2Model ----
(***************************************************************************)
(* Realtime synchronisation core of the collaborative canvas:              *)
(*   - CanvasParty, the per-room relay (app-realtime/partykit/src/canvas.ts)*)
(*   - usePartyKit, the connection hook (app-web/src/hooks/use-partykit.ts) *)
(*   - useYjsShapes, the CRDT hook (app-web/src/hooks/use-yjs-shapes.ts)    *)
(* The Y.Array "shapes" of every replica is modelled as a YATA list of     *)
(* items with tombstones, updates as sets of items plus a delete set.      *)
(***************************************************************************)
EXTENDS Integers, Sequences, FiniteSets, TLC

(***************************************************************************)
(* Y.Doc / Y.Array("shapes")                                               *)
(***************************************************************************)

\* The id of "no item" (a null origin).
NoId == <<0, 0>>

\* An empty update: no structs, empty delete set.
NoUpdate == [structs |-> {}, ds |-> {}]

\* new Y.Doc(): empty list, nothing deleted, nothing pending.
EmptyDoc == [list |-> <<>>, del |-> {}, pend |-> {}, pendDs |-> {}]

\* Position of the item with this id in the list, 0 when absent.
IndexOf(list, id) ==
  IF \E i \in 1..Len(list) : list[i].id = id
  THEN CHOOSE i \in 1..Len(list) : list[i].id = id
  ELSE 0

\* The next clock the replica expects from a client (its state vector entry).
NextClock(list, client) ==
  Cardinality({i \in 1..Len(list) : list[i].id[1] = client})

InsertAfter(list, left, s) ==
  SubSeq(list, 1, left) \o <<s>> \o SubSeq(list, left + 1, Len(list))

\* The conflict-resolution loop of Item.integrate: o is the position examined,
\* stop the position of the right origin, left the position to insert after.
RECURSIVE Scan(_, _, _, _, _, _, _)
Scan(list, s, o, stop, left, conf, before) ==
  IF o >= stop \/ o > Len(list) THEN left
  ELSE LET it == list[o]
           before2 == before \cup {it.id}
           conf2 == conf \cup {it.id}
       IN IF it.origin = s.origin
          THEN IF it.id[1] < s.id[1]
               THEN Scan(list, s, o + 1, stop, o, {}, before2)
               ELSE IF it.rightOrigin = s.rightOrigin
                    THEN left
                    ELSE Scan(list, s, o + 1, stop, left, conf2, before2)
          ELSE IF it.origin # NoId /\ it.origin \in before2
               THEN IF it.origin \notin conf2
                    THEN Scan(list, s, o + 1, stop, o, {}, before2)
                    ELSE Scan(list, s, o + 1, stop, left, conf2, before2)
               ELSE left

\* Item.integrate: place a struct whose origins are present.
Integrate(list, s) ==
  LET left == IndexOf(list, s.origin)
      stop == IF s.rightOrigin = NoId THEN Len(list) + 1
              ELSE IndexOf(list, s.rightOrigin)
  IN InsertAfter(list, Scan(list, s, left + 1, stop, left, {}, {}), s)

Present(list, id) == id = NoId \/ IndexOf(list, id) # 0

\* A struct can be integrated when it is the next of its client and both of
\* its origins are in the store; otherwise it stays pending.
Ready(list, s) ==
  /\ s.id[2] = NextClock(list, s.id[1])
  /\ Present(list, s.origin)
  /\ Present(list, s.rightOrigin)

RECURSIVE IntegrateAll(_, _)
IntegrateAll(list, pend) ==
  LET ready == {s \in pend : Ready(list, s)}
  IN IF ready = {} THEN [list |-> list, pend |-> pend]
     ELSE LET s == CHOOSE x \in ready : \A y \in ready :
                       \/ x.id[1] < y.id[1]
                       \/ (x.id[1] = y.id[1] /\ x.id[2] <= y.id[2])
          IN IntegrateAll(Integrate(list, s), pend \ {s})

\* An applyUpdate that takes the update for the whole state.
ApplyUpdateAsState(d, u) ==
  LET r == IntegrateAll(<<>>, u.structs)
  IN [list |-> r.list, del |-> {i \in u.ds : IndexOf(r.list, i) # 0},
      pend |-> r.pend, pendDs |-> {i \in u.ds : IndexOf(r.list, i) = 0}]

\* Y.applyUpdate(doc, update): integrate what can be integrated, keep the rest
\* pending, then apply the delete set to the items that are present.
ApplyUpdate(d, u) ==
  LET fresh == {s \in u.structs : IndexOf(d.list, s.id) = 0}
      r == IntegrateAll(d.list, d.pend \cup fresh)
      dels == d.pendDs \cup u.ds
      here == {i \in dels : IndexOf(r.list, i) # 0}
  IN [list |-> r.list, del |-> d.del \cup here,
      pend |-> r.pend, pendDs |-> dels \ here]

\* A snapshot that leaves the delete set out.
EncodeWithoutDeleteSet(d) ==
  [structs |-> {d.list[i] : i \in 1..Len(d.list)} \cup d.pend, ds |-> {}]

\* Y.encodeStateAsUpdate(doc): every struct of the store, the pending ones
\* and the delete set.
EncodeStateAsUpdate(d) ==
  [structs |-> {d.list[i] : i \in 1..Len(d.list)} \cup d.pend,
   ds |-> d.del \cup d.pendDs]

\* The positions of the items that are not deleted, in list order.
RECURSIVE LivePositions(_, _)
LivePositions(d, i) ==
  IF i > Len(d.list) THEN <<>>
  ELSE IF d.list[i].id \in d.del THEN LivePositions(d, i + 1)
       ELSE <<i>> \o LivePositions(d, i + 1)

\* shapesArray.toArray()
ToArray(d) ==
  LET live == LivePositions(d, 1)
  IN [k \in 1..Len(live) |-> d.list[live[k]].content]

\* The live item at a 0-based array index (a position of the list).
LivePos(d, index) == LivePositions(d, 1)[index + 1]

\* shapesArray.push([content]) by the replica whose clientID is client: the
\* new item goes after the last struct of the list. Gives the replica and the
\* update the transaction emits.
ArrayPush(d, client, content) ==
  LET n == Len(d.list)
      it == [id |-> <<client, NextClock(d.list, client)>>,
             origin |-> IF n = 0 THEN NoId ELSE d.list[n].id,
             rightOrigin |-> NoId,
             content |-> content]
  IN [doc |-> [d EXCEPT !.list = InsertAfter(d.list, n, it)],
      update |-> [structs |-> {it}, ds |-> {}]]

\* shapesArray.insert(index, [content]): right after the index-th live item
\* (at the start for index 0), before whatever follows it.
ArrayInsert(d, client, index, content) ==
  LET left == IF index = 0 THEN 0 ELSE LivePos(d, index - 1)
      it == [id |-> <<client, NextClock(d.list, client)>>,
             origin |-> IF left = 0 THEN NoId ELSE d.list[left].id,
             rightOrigin |-> IF left = Len(d.list) THEN NoId
                             ELSE d.list[left + 1].id,
             content |-> content]
  IN [doc |-> [d EXCEPT !.list = InsertAfter(d.list, left, it)],
      update |-> [structs |-> {it}, ds |-> {}]]

\* shapesArray.delete(index, 1): the live item at index becomes a tombstone.
ArrayDelete(d, index) ==
  LET id == d.list[LivePos(d, index)].id
  IN [doc |-> [d EXCEPT !.del = @ \cup {id}],
      update |-> [structs |-> {}, ds |-> {id}]]

(***************************************************************************)
(* Frames on the wire                                                      *)
(***************************************************************************)

Peers == {"p1", "p2", "p3"}
Rooms == {"r1", "r2"}

\* A binary frame carrying a Yjs update.
BinFrame(u) == [t |-> "bin", kind |-> "update", id |-> "", n |-> 0, u |-> u]

\* A binary frame that is no Yjs update: Y.applyUpdate throws on it.
CorruptFrame ==
  [t |-> "bin", kind |-> "corrupt", id |-> "", n |-> 0, u |-> NoUpdate]

\* A text frame; kind "garbage" is text that is not JSON, kind "null" the
\* JSON text null, every other kind the JSON text of an object with that type.
TextFrame(kind, id, n) ==
  [t |-> "text", kind |-> kind, id |-> id, n |-> n, u |-> NoUpdate]

NoFrame == [t |-> "none", kind |-> "", id |-> "", n |-> 0, u |-> NoUpdate]

\* JSON.stringify of a control message object.
JSONStringify(type, userId, users) == TextFrame(type, userId, users)

\* JSON.parse(text) returns (TRUE) or throws a SyntaxError (FALSE).
JSONParses(f) == f.t = "text" /\ f.kind # "garbage"

Shape(sid, x) == [id |-> sid, x |-> x]

(***************************************************************************)
(* State                                                                   *)
(***************************************************************************)

\* The relay, one CanvasParty per room.
VARIABLES
  conns,      \* room.getConnections(): the open connections of each room
  doc,        \* CanvasParty.doc of each room
  peerState,  \* each connection: "new", "open" or "closed"
  out,        \* the conn.send calls of the last handler, per connection
  last        \* the last handler the runtime invoked, with its arguments

relayVars == <<conns, doc, peerState, out, last>>

\* One consumer of usePartyKit.
VARIABLES
  hookPhase,    \* "rendered" (first render, effects not yet run), "mounted",
                \* "unmounted"
  hookRoom,     \* the room prop the connection effect last ran with
  socket,       \* the socket state of useState: 0 is null, else an index of socks
  isConnected,  \* the isConnected state of useState
  socks,        \* every PartySocket created so far, in order of creation
  wire,         \* the socket.send calls made so far
  blobs,        \* Blob frames whose arrayBuffer() promise is still pending
  cbs,          \* the consumer callbacks the last handler invoked
  nframes,      \* inbound message events handled so far
  hlast         \* the last operation of the hook, with its arguments

hookVars == <<hookPhase, hookRoom, socket, isConnected, socks, wire, blobs,
              cbs, nframes, hlast>>

\* The clients of one room, each a useYjsShapes over a usePartyKit.
VARIABLES
  cdoc,     \* the Y.Doc of each client's useYjsShapes
  csock,    \* each client's connection: "null" (no socket in the hook's
            \* state yet), "connecting", "open", "closed"
  c2s,      \* frames handed to socket.send that the relay has not handled
  s2c,      \* frames the relay sent that the client has not handled
  nedits,   \* shape identifiers drawn so far, and local mutations made
  cshapes   \* the shapes state of each client as of its last render: the
            \* list the closures of updateShape and deleteShape search

syncVars == <<cdoc, csock, c2s, s2c, nedits, cshapes>>

\* One useYjsShapes observed call by call (it uses cdoc, cshapes and nedits
\* of its client).
VARIABLES
  ylast,    \* the last call: its arguments, whether it threw, the updates
            \* its updateHandler handed to send, in order
  yshapes   \* the array the observer last passed to setShapes

shapeVars == <<ylast, yshapes>>

\* The relay of one room with what it has sent on each connection.
VARIABLES
  log,      \* per connection: every frame sent on it so far, in the order
            \* of the conn.send calls, with the handler that sent it
  nsent     \* per peer: the frames it has sent to the relay so far

logVars == <<log, nsent>>

\* The collaborative canvas page of each client.
VARIABLES
  otherUsers  \* the otherUsers state: the ids of the users whose cursor the
              \* page shows, in the order they were added

pageVars == <<otherUsers>>

vars == <<relayVars, hookVars, syncVars, shapeVars, logVars, pageVars>>

(***************************************************************************)
(* CanvasParty: the relay                                                  *)
(***************************************************************************)

NoSends == [q \in Peers |-> <<>>]

\* A broadcast that ignores the list of excluded connections.
BroadcastToAll(cs, msg, except) ==
  [q \in Peers |-> IF q \in cs THEN <<msg>> ELSE <<>>]

\* A broadcast to every open connection of the server, whatever its room.
BroadcastAcrossRooms(cs, msg, except) ==
  [q \in Peers |->
     IF peerState[q] = "open" /\ q \notin except THEN <<msg>> ELSE <<>>]

\* room.broadcast(msg, except): conn.send(msg) on every connection of the
\* room whose id is not in except.
Broadcast(cs, msg, except) ==
  [q \in Peers |-> IF q \in cs /\ q \notin except THEN <<msg>> ELSE <<>>]

\* An onConnect that also announces the joiner to the others.
OnConnectAnnounced(d, cs, conn) ==
  [doc |-> d,
   sends |-> [q \in Peers |->
                IF q = conn
                THEN <<BinFrame(EncodeStateAsUpdate(d)),
                       JSONStringify("sync", "", Cardinality(cs))>>
                ELSE IF q \in cs
                     THEN <<JSONStringify("user-joined", conn, 0)>>
                     ELSE <<>>]]

\* An onConnect that sends the sync message before the snapshot.
OnConnectSyncFirst(d, cs, conn) ==
  [doc |-> d,
   sends |-> [q \in Peers |->
                IF q = conn
                THEN <<JSONStringify("sync", "", Cardinality(cs)),
                       BinFrame(EncodeStateAsUpdate(d))>>
                ELSE <<>>]]

\* onConnect(conn): the state snapshot, then the sync message, to conn only.
\* cs is what room.getConnections() returns while the handler runs.
OnConnect(d, cs, conn) ==
  [doc |-> d,
   sends |-> [q \in Peers |->
                IF q = conn
                THEN <<BinFrame(EncodeStateAsUpdate(d)),
                       JSONStringify("sync", "", Cardinality(cs))>>
                ELSE <<>>]]

\* An onMessage that forwards a binary update without merging it.
OnMessageNoMerge(d, cs, message, sender) ==
  IF message.t = "bin" /\ message.kind = "corrupt"
  THEN [doc |-> d, sends |-> NoSends, threw |-> TRUE]
  ELSE IF message.t = "bin" \/ message.kind # "garbage"
       THEN [doc |-> d,
             sends |-> [q \in Peers |->
                          IF q \in cs /\ q # sender THEN <<message>>
                          ELSE <<>>],
             threw |-> FALSE]
       ELSE [doc |-> d, sends |-> NoSends, threw |-> FALSE]

\* An onMessage that broadcasts a binary frame before it merges it.
OnMessageBroadcastFirst(d, cs, message, sender) ==
  IF message.t = "bin"
  THEN IF message.kind = "corrupt"
       THEN [doc |-> d, sends |-> Broadcast(cs, message, {sender}),
             threw |-> TRUE]
       ELSE [doc |-> ApplyUpdate(d, message.u),
             sends |-> Broadcast(cs, message, {sender}),
             threw |-> FALSE]
  ELSE IF JSONParses(message)
       THEN [doc |-> d, sends |-> Broadcast(cs, message, {sender}),
             threw |-> FALSE]
       ELSE [doc |-> d, sends |-> NoSends, threw |-> FALSE]

\* An onMessage that forwards text without parsing it.
OnMessageUnparsed(d, cs, message, sender) ==
  IF message.t = "bin" /\ message.kind = "corrupt"
  THEN [doc |-> d, sends |-> NoSends, threw |-> TRUE]
  ELSE [doc |-> IF message.t = "bin" THEN ApplyUpdate(d, message.u) ELSE d,
        sends |-> [q \in Peers |->
                     IF q \in cs /\ q # sender THEN <<message>> ELSE <<>>],
        threw |-> FALSE]

\* onMessage(message, sender).
OnMessage(d, cs, message, sender) ==
  IF message.t = "bin"
  THEN IF message.kind = "corrupt"
       THEN [doc |-> d, sends |-> NoSends, threw |-> TRUE]
       ELSE [doc |-> ApplyUpdate(d, message.u),
             sends |-> Broadcast(cs, message, {sender}),
             threw |-> FALSE]
  ELSE IF JSONParses(message)
       THEN [doc |-> d, sends |-> Broadcast(cs, message, {sender}),
             threw |-> FALSE]
       ELSE [doc |-> d, sends |-> NoSends, threw |-> FALSE]

\* An onClose that drops the document when the last connection leaves.
OnCloseForgetsDoc(d, cs, conn) ==
  [doc |-> IF cs \ {conn} = {} THEN EmptyDoc ELSE d,
   sends |-> [q \in Peers |->
                IF q \in cs /\ q # conn
                THEN <<JSONStringify("user-left", conn, 0)>> ELSE <<>>]]

\* onClose(conn): user-left to every connection but conn.
OnClose(d, cs, conn) ==
  [doc |-> d,
   sends |-> Broadcast(cs, JSONStringify("user-left", conn, 0), {conn})]

\* onError(conn, error): logs only.
OnError(d, cs, conn) == [doc |-> d, sends |-> NoSends]

\* The room a connection belongs to.
RoomOf(p) == CHOOSE r \in Rooms : p \in conns[r]

(***************************************************************************)
(* The relay under arbitrary peers: SpecRelay                              *)
(***************************************************************************)

\* Updates that Yjs replicas produce: client 1 pushes s1, pushes s2 and
\* deletes s1; client 2 pushes s3 into its own empty replica.
PushA == ArrayPush(EmptyDoc, 1, Shape("s1", 0))
PushA2 == ArrayPush(PushA.doc, 1, Shape("s2", 0))
DeleteA == ArrayDelete(PushA.doc, 0)
PushB == ArrayPush(EmptyDoc, 2, Shape("s3", 0))

UpdatePool == {PushA.update, PushA2.update, DeleteA.update, PushB.update}

\* The frames a peer may send to the relay.
PeerFrames ==
  {BinFrame(u) : u \in UpdatePool}
    \cup {CorruptFrame,
          TextFrame("cursor", "u1", 0),
          TextFrame("null", "", 0),
          TextFrame("garbage", "", 0)}

RelayInit ==
  /\ conns = [r \in Rooms |-> {}]
  /\ doc = [r \in Rooms |-> EmptyDoc]
  /\ peerState = [p \in Peers |-> "new"]
  /\ out = NoSends
  /\ last = [op |-> "init", peer |-> "", room |-> "", frame |-> NoFrame]

\* The runtime accepts a connection to room r, registers it in the room and
\* calls onConnect.
RConnect(p, r) ==
  /\ peerState[p] = "new"
  /\ LET cs == conns[r] \cup {p}
         res == OnConnect(doc[r], cs, p)
     IN /\ conns' = [conns EXCEPT ![r] = cs]
        /\ doc' = [doc EXCEPT ![r] = res.doc]
        /\ out' = res.sends
  /\ peerState' = [peerState EXCEPT ![p] = "open"]
  /\ last' = [op |-> "connect", peer |-> p, room |-> r, frame |-> NoFrame]
  /\ UNCHANGED <<hookVars, syncVars, shapeVars, logVars, pageVars>>

\* A frame of an open connection arrives: onMessage.
RMessage(p, f) ==
  /\ peerState[p] = "open"
  /\ LET r == RoomOf(p)
         res == OnMessage(doc[r], conns[r], f, p)
     IN /\ doc' = [doc EXCEPT ![r] = res.doc]
        /\ out' = res.sends
        /\ last' = [op |-> "message", peer |-> p, room |-> r, frame |-> f]
  /\ UNCHANGED <<conns, peerState>>
  /\ UNCHANGED <<hookVars, syncVars, shapeVars, logVars, pageVars>>

\* The connection closes: onClose, and the room forgets it.
RClose(p) ==
  /\ peerState[p] = "open"
  /\ LET r == RoomOf(p)
         res == OnClose(doc[r], conns[r], p)
     IN /\ doc' = [doc EXCEPT ![r] = res.doc]
        /\ out' = res.sends
        /\ conns' = [conns EXCEPT ![r] = @ \ {p}]
        /\ last' = [op |-> "close", peer |-> p, room |-> r, frame |-> NoFrame]
  /\ peerState' = [peerState EXCEPT ![p] = "closed"]
  /\ UNCHANGED <<hookVars, syncVars, shapeVars, logVars, pageVars>>

\* The connection ends with a transport error: onError, and the room
\* forgets it.
RError(p) ==
  /\ peerState[p] = "open"
  /\ LET r == RoomOf(p)
         res == OnError(doc[r], conns[r], p)
     IN /\ doc' = [doc EXCEPT ![r] = res.doc]
        /\ out' = res.sends
        /\ conns' = [conns EXCEPT ![r] = @ \ {p}]
        /\ last' = [op |-> "error", peer |-> p, room |-> r, frame |-> NoFrame]
  /\ peerState' = [peerState EXCEPT ![p] = "closed"]
  /\ UNCHANGED <<hookVars, syncVars, shapeVars, logVars, pageVars>>

RelayNext ==
  \/ \E p \in Peers, r \in Rooms : RConnect(p, r)
  \/ \E p \in Peers, f \in PeerFrames : RMessage(p, f)
  \/ \E p \in Peers : RClose(p)
  \/ \E p \in Peers : RError(p)

(***************************************************************************)
(* usePartyKit: one consumer of the connection hook, SpecHook              *)
(***************************************************************************)

MaxSockets == 2   \* PartySocket instances one consumer creates
MaxSends == 2     \* calls of send
MaxFrames == 2    \* inbound message events

\* What a message event can carry, by the representation of event.data.
NoEvent == [rep |-> "none", frame |-> NoFrame]

InboundEvents ==
  {[rep |-> "arraybuffer", frame |-> BinFrame(NoUpdate)],
   [rep |-> "blob", frame |-> BinFrame(NoUpdate)],
   [rep |-> "string", frame |-> TextFrame("cursor", "u1", 0)],
   [rep |-> "string", frame |-> TextFrame("null", "", 0)],
   [rep |-> "string", frame |-> TextFrame("garbage", "", 0)]}

\* The page's onMessage reads data.type: a TypeError when data is null.
ConsumerThrows(ev) == ev.rep = "string" /\ ev.frame.kind = "null"

OnMessageCall(ev) == [cb |-> "onMessage", ev |-> ev]
OnErrorCall(ev) == [cb |-> "onError", ev |-> ev]

\* new PartySocket({host, room})
NewPartySocket(r) == [room |-> r, ready |-> "connecting", closeCalled |-> FALSE]

\* An effect that returns no cleanup.
CleanupForgotten(ss) == ss

\* partySocket.close(): the cleanup of the connection effect, on the socket
\* the effect created.
Cleanup(ss) ==
  IF Len(ss) = 0 THEN ss
  ELSE [ss EXCEPT ![Len(ss)] =
          [@ EXCEPT !.closeCalled = TRUE,
                    !.ready = IF @ = "closed" THEN "closed" ELSE "closing"]]

\* handleMessage(event): the callbacks it invokes and whether a Blob
\* conversion is left pending.
HandleMessage(ev) ==
  IF ev.rep = "arraybuffer"
  THEN [calls |-> IF ConsumerThrows(ev)
                  THEN <<OnMessageCall(ev), OnErrorCall(ev)>>
                  ELSE <<OnMessageCall(ev)>>,
        pending |-> FALSE]
  ELSE IF ev.rep = "blob"
  THEN [calls |-> <<>>, pending |-> TRUE]
  ELSE IF JSONParses(ev.frame)
       THEN [calls |-> IF ConsumerThrows(ev)
                       THEN <<OnMessageCall(ev), OnErrorCall(ev)>>
                       ELSE <<OnMessageCall(ev)>>,
             pending |-> FALSE]
       ELSE [calls |-> <<OnErrorCall(ev)>>, pending |-> FALSE]

\* A send that also drops the payload while isConnected is false.
SendWhenConnected(sock, w, payload) ==
  IF sock = 0 \/ ~isConnected THEN w
  ELSE IF payload = "binary"
       THEN Append(w, [sock |-> sock, data |-> BinFrame(NoUpdate)])
       ELSE Append(w, [sock |-> sock,
                       data |-> JSONStringify("cursor", "u1", 0)])

\* send(data): the socket.send calls after it. A payload is "binary" (an
\* ArrayBuffer or Uint8Array, sent as it is) or "json" (stringified).
Send(sock, w, payload) ==
  IF sock = 0 THEN w
  ELSE IF payload = "binary"
       THEN Append(w, [sock |-> sock, data |-> BinFrame(NoUpdate)])
       ELSE Append(w, [sock |-> sock,
                       data |-> JSONStringify("cursor", "u1", 0)])

HookInit ==
  /\ hookPhase = "rendered"
  /\ hookRoom = "r1"
  /\ socket = 0
  /\ isConnected = FALSE
  /\ socks = <<>>
  /\ wire = <<>>
  /\ blobs = <<>>
  /\ cbs = <<>>
  /\ nframes = 0
  /\ hlast = [op |-> "init", sock |-> 0, ev |-> NoEvent]

\* The connection effect runs after the first render.
HMount ==
  /\ hookPhase = "rendered"
  /\ hookPhase' = "mounted"
  /\ socks' = Append(socks, NewPartySocket(hookRoom))
  /\ socket' = Len(socks')
  /\ cbs' = <<>>
  /\ hlast' = [op |-> "mount", sock |-> socket', ev |-> NoEvent]
  /\ UNCHANGED <<hookRoom, isConnected, wire, blobs, nframes>>
  /\ UNCHANGED <<relayVars, syncVars, shapeVars, logVars, pageVars>>

\* The room prop changes: the cleanup of the previous effect, then the effect.
HRoomChange(r) ==
  /\ hookPhase = "mounted"
  /\ r # hookRoom
  /\ Len(socks) < MaxSockets
  /\ hookRoom' = r
  /\ socks' = Append(Cleanup(socks), NewPartySocket(r))
  /\ socket' = Len(socks')
  /\ cbs' = <<>>
  /\ hlast' = [op |-> "room", sock |-> socket', ev |-> NoEvent]
  /\ UNCHANGED <<hookPhase, isConnected, wire, blobs, nframes>>
  /\ UNCHANGED <<relayVars, syncVars, shapeVars, logVars, pageVars>>

\* The component unmounts: the cleanup only.
HUnmount ==
  /\ hookPhase = "mounted"
  /\ hookPhase' = "unmounted"
  /\ socks' = Cleanup(socks)
  /\ cbs' = <<>>
  /\ hlast' = [op |-> "unmount", sock |-> socket, ev |-> NoEvent]
  /\ UNCHANGED <<hookRoom, socket, isConnected, wire, blobs, nframes>>
  /\ UNCHANGED <<relayVars, syncVars, shapeVars, logVars, pageVars>>

\* The open event of socket s: handleOpen.
HSockOpen(s) ==
  /\ s \in 1..Len(socks)
  /\ socks[s].ready = "connecting"
  /\ socks' = [socks EXCEPT ![s].ready = "open"]
  /\ isConnected' = TRUE
  /\ cbs' = <<>>
  /\ hlast' = [op |-> "open", sock |-> s, ev |-> NoEvent]
  /\ UNCHANGED <<hookPhase, hookRoom, socket, wire, blobs, nframes>>
  /\ UNCHANGED <<relayVars, syncVars, shapeVars, logVars, pageVars>>

\* The close event of socket s: handleClose.
HSockClose(s) ==
  /\ s \in 1..Len(socks)
  /\ socks[s].ready # "closed"
  /\ socks' = [socks EXCEPT ![s].ready = "closed"]
  /\ isConnected' = FALSE
  /\ cbs' = <<>>
  /\ hlast' = [op |-> "close", sock |-> s, ev |-> NoEvent]
  /\ UNCHANGED <<hookPhase, hookRoom, socket, wire, blobs, nframes>>
  /\ UNCHANGED <<relayVars, syncVars, shapeVars, logVars, pageVars>>

\* The error event of socket s: handleError.
HSockError(s) ==
  /\ s \in 1..Len(socks)
  /\ socks[s].ready # "closed"
  /\ cbs' = <<OnErrorCall(NoEvent)>>
  /\ hlast' = [op |-> "error", sock |-> s, ev |-> NoEvent]
  /\ UNCHANGED <<hookPhase, hookRoom, socket, isConnected, socks, wire,
                 blobs, nframes>>
  /\ UNCHANGED <<relayVars, syncVars, shapeVars, logVars, pageVars>>

\* A message event of socket s: handleMessage.
HMessage(s, ev) ==
  /\ s \in 1..Len(socks)
  /\ socks[s].ready \in {"open", "closing"}
  /\ nframes < MaxFrames
  /\ nframes' = nframes + 1
  /\ LET res == HandleMessage(ev)
     IN /\ cbs' = res.calls
        /\ blobs' = IF res.pending THEN Append(blobs, ev) ELSE blobs
  /\ hlast' = [op |-> "message", sock |-> s, ev |-> ev]
  /\ UNCHANGED <<hookPhase, hookRoom, socket, isConnected, socks, wire>>
  /\ UNCHANGED <<relayVars, syncVars, shapeVars, logVars, pageVars>>

\* The arrayBuffer() promise of a pending Blob resolves: onMessage(buffer).
HBlobResolved(i) ==
  /\ i \in 1..Len(blobs)
  /\ cbs' = <<OnMessageCall(blobs[i])>>
  /\ blobs' = SubSeq(blobs, 1, i - 1) \o SubSeq(blobs, i + 1, Len(blobs))
  /\ hlast' = [op |-> "blob", sock |-> 0, ev |-> blobs[i]]
  /\ UNCHANGED <<hookPhase, hookRoom, socket, isConnected, socks, wire,
                 nframes>>
  /\ UNCHANGED <<relayVars, syncVars, shapeVars, logVars, pageVars>>

\* The consumer calls send(data).
HSend(payload) ==
  /\ hookPhase # "unmounted"
  /\ Len(wire) < MaxSends
  /\ wire' = Send(socket, wire, payload)
  /\ cbs' = <<>>
  /\ hlast' = [op |-> "send", sock |-> socket, ev |-> NoEvent]
  /\ UNCHANGED <<hookPhase, hookRoom, socket, isConnected, socks, blobs,
                 nframes>>
  /\ UNCHANGED <<relayVars, syncVars, shapeVars, logVars, pageVars>>

HookNext ==
  \/ HMount
  \/ \E r \in Rooms : HRoomChange(r)
  \/ HUnmount
  \/ \E s \in 1..MaxSockets : HSockOpen(s)
  \/ \E s \in 1..MaxSockets : HSockClose(s)
  \/ \E s \in 1..MaxSockets : HSockError(s)
  \/ \E s \in 1..MaxSockets, ev \in InboundEvents : HMessage(s, ev)
  \/ \E i \in 1..MaxFrames : HBlobResolved(i)
  \/ \E payload \in {"binary", "json"} : HSend(payload)

(***************************************************************************)
(* useYjsShapes over usePartyKit, clients of one room: SpecSync            *)
(***************************************************************************)

MaxEdits == 2   \* addShape / updateShape / deleteShape calls, all clients

Clients == {"p1", "p2"}
SyncRoom == "r1"

\* doc.clientID of each client's Y.Doc.
ClientId(c) == IF c = "p1" THEN 1 ELSE IF c = "p2" THEN 2 ELSE 3

\* crypto.randomUUID(): the n-th identifier drawn, never drawn before.
RandomUUID(n) == <<"s1", "s2", "s3", "s4">>[n + 1]

\* The update event of a transaction: the structs it integrated and the
\* items it deleted; none when the transaction changed nothing.
TransactionUpdate(before, after) ==
  [structs |-> {after.list[i] : i \in 1..Len(after.list)}
                 \ {before.list[i] : i \in 1..Len(before.list)},
   ds |-> after.del \ before.del]

\* updateHandler -> send(update) -> socket.send(update): dropped while the
\* hook has no socket, handed to the socket otherwise (a closed PartySocket
\* keeps it in its queue for good).
SendUpdate(state, queue, u) ==
  IF u = NoUpdate \/ state \in {"null", "closed"} THEN queue
  ELSE Append(queue, BinFrame(u))

\* An addShape that puts the shape at the start of the array.
AddShapeFirst(d, client, sid) == ArrayInsert(d, client, 0, Shape(sid, 0))

\* addShape(shape): push the shape with a fresh id.
AddShape(d, client, sid) == ArrayPush(d, client, Shape(sid, 0))

\* deleteShape(id) for the shape found at index.
DeleteShape(d, index) == ArrayDelete(d, index)

\* A merge whose update event fires even when the merge changed nothing.
RemoteUpdateAlwaysEmits(d, u) == [doc |-> ApplyUpdate(d, u), update |-> u]

\* remoteUpdateHandler(update), then the update event it causes.
RemoteUpdate(d, u) ==
  LET after == ApplyUpdate(d, u)
  IN [doc |-> after, update |-> TransactionUpdate(d, after)]

\* shapes.findIndex(s => s.id === id): the 0-based index, -1 when absent.
FindIndex(list, id) ==
  IF \E i \in 1..Len(list) : list[i].id = id
  THEN (CHOOSE i \in 1..Len(list) :
          list[i].id = id /\ \A j \in 1..(i - 1) : list[j].id # id) - 1
  ELSE -1

\* The identifiers a consumer may pass: those addShape can have drawn and
\* one that was never drawn.
ShapeIds == {RandomUUID(n) : n \in 0..(MaxEdits - 1)} \cup {"none"}

\* The updates of a call that reached updateHandler, in order, without the
\* empty ones (a transaction that changed nothing emits no update event).
Events(us) == SelectSeq(us, LAMBDA u : u # NoUpdate)

RECURSIVE SendAll(_, _, _)
SendAll(state, queue, us) ==
  IF us = <<>> THEN queue
  ELSE SendAll(state, SendUpdate(state, queue, Head(us)), Tail(us))

\* updateShape(id, updates): the index comes from the shapes state of the
\* last render; get, delete and insert act on the Y.Array, and Y.Array.delete
\* throws when the index is not below the array's length. Gives the replica,
\* the updates emitted and whether the call threw.
UpdateShape(d, shapes, client, id) ==
  LET index == FindIndex(shapes, id)
      arr == ToArray(d)
  IN IF index = -1
     THEN [doc |-> d, events |-> <<>>, threw |-> FALSE]
     ELSE IF index >= Len(arr)
     THEN [doc |-> d, events |-> <<>>, threw |-> TRUE]
     ELSE LET current == arr[index + 1]
              del == ArrayDelete(d, index)
              ins == ArrayInsert(del.doc, client, index,
                                 [current EXCEPT !.x = 1])
          IN [doc |-> ins.doc, events |-> <<del.update, ins.update>>,
              threw |-> FALSE]

\* deleteShape(id): the index comes from the shapes state of the last
\* render, the delete acts on the Y.Array.
DeleteShapeById(d, shapes, id) ==
  LET index == FindIndex(shapes, id)
  IN IF index = -1
     THEN [doc |-> d, events |-> <<>>, threw |-> FALSE]
     ELSE IF index >= Len(ToArray(d))
     THEN [doc |-> d, events |-> <<>>, threw |-> TRUE]
     ELSE LET res == DeleteShape(d, index)
          IN [doc |-> res.doc, events |-> <<res.update>>, threw |-> FALSE]

\* An observer that is told of local transactions only.
ObserverLocalOnly(prev, before, after, origin) ==
  IF origin = "local" /\ ToArray(after) # ToArray(before) THEN ToArray(after)
  ELSE prev

\* The observer of the shapes array: a transaction that changed the array,
\* local or remote, ends with setShapes(shapesArray.toArray()); prev is the
\* array setShapes got last.
Observer(prev, before, after, origin) ==
  IF ToArray(after) # ToArray(before) THEN ToArray(after) ELSE prev

\* No call of useYjsShapes was made yet.
NoCall == [op |-> "none", id |-> "", threw |-> FALSE, events |-> <<>>]

SyncInit ==
  /\ cdoc = [c \in Clients |-> EmptyDoc]
  /\ csock = [c \in Clients |-> "null"]
  /\ c2s = [c \in Clients |-> <<>>]
  /\ s2c = [c \in Clients |-> <<>>]
  /\ nedits = 0
  /\ cshapes = [c \in Clients |-> <<>>]
  /\ ylast = NoCall
  /\ yshapes = <<>>

Deliver(sends) == [c \in Clients |-> s2c[c] \o sends[c]]

\* The connection effect of client c creates its PartySocket.
SMount(c) ==
  /\ csock[c] = "null"
  /\ csock' = [csock EXCEPT ![c] = "connecting"]
  /\ UNCHANGED <<cdoc, c2s, s2c, nedits, cshapes, relayVars>>
  /\ UNCHANGED <<hookVars, shapeVars, logVars, pageVars>>

\* The connection of c is established: the relay registers it and runs
\* onConnect, the client's socket opens.
SOpen(c) ==
  /\ csock[c] = "connecting"
  /\ csock' = [csock EXCEPT ![c] = "open"]
  /\ LET cs == conns[SyncRoom] \cup {c}
         res == OnConnect(doc[SyncRoom], cs, c)
     IN /\ conns' = [conns EXCEPT ![SyncRoom] = cs]
        /\ s2c' = Deliver(res.sends)
  /\ peerState' = [peerState EXCEPT ![c] = "open"]
  /\ UNCHANGED <<cdoc, c2s, nedits, cshapes, doc, out, last>>
  /\ UNCHANGED <<hookVars, shapeVars, logVars, pageVars>>

\* React renders client c again after the observer called setShapes: the
\* closures of the mutators now hold the current array.
SRender(c) ==
  /\ cshapes[c] # ToArray(cdoc[c])
  /\ cshapes' = [cshapes EXCEPT ![c] = ToArray(cdoc[c])]
  /\ UNCHANGED <<cdoc, csock, c2s, s2c, nedits, relayVars>>
  /\ UNCHANGED <<hookVars, shapeVars, logVars, pageVars>>

\* Client c calls addShape.
SAddShape(c) ==
  /\ nedits < MaxEdits
  /\ nedits' = nedits + 1
  /\ LET res == AddShape(cdoc[c], ClientId(c), RandomUUID(nedits))
     IN /\ cdoc' = [cdoc EXCEPT ![c] = res.doc]
        /\ c2s' = [c2s EXCEPT ![c] = SendAll(csock[c], @, <<res.update>>)]
  /\ UNCHANGED <<csock, s2c, cshapes, relayVars>>
  /\ UNCHANGED <<hookVars, shapeVars, logVars, pageVars>>

\* Client c calls updateShape(id, updates) and the call changes its replica.
SUpdateShape(c, id) ==
  /\ nedits < MaxEdits
  /\ LET res == UpdateShape(cdoc[c], cshapes[c], ClientId(c), id)
     IN /\ res.events # <<>>
        /\ cdoc' = [cdoc EXCEPT ![c] = res.doc]
        /\ c2s' = [c2s EXCEPT ![c] = SendAll(csock[c], @, res.events)]
  /\ nedits' = nedits + 1
  /\ UNCHANGED <<csock, s2c, cshapes, relayVars>>
  /\ UNCHANGED <<hookVars, shapeVars, logVars, pageVars>>

\* Client c calls deleteShape(id) and the call changes its replica.
SDeleteShape(c, id) ==
  /\ nedits < MaxEdits
  /\ LET res == DeleteShapeById(cdoc[c], cshapes[c], id)
     IN /\ res.events # <<>>
        /\ cdoc' = [cdoc EXCEPT ![c] = res.doc]
        /\ c2s' = [c2s EXCEPT ![c] = SendAll(csock[c], @, res.events)]
  /\ nedits' = nedits + 1
  /\ UNCHANGED <<csock, s2c, cshapes, relayVars>>
  /\ UNCHANGED <<hookVars, shapeVars, logVars, pageVars>>

\* The relay handles the next frame of c: onMessage.
SRelayMessage(c) ==
  /\ c \in conns[SyncRoom]
  /\ c2s[c] # <<>>
  /\ LET res == OnMessage(doc[SyncRoom], conns[SyncRoom], Head(c2s[c]), c)
     IN /\ doc' = [doc EXCEPT ![SyncRoom] = res.doc]
        /\ s2c' = Deliver(res.sends)
  /\ c2s' = [c2s EXCEPT ![c] = Tail(@)]
  /\ UNCHANGED <<cdoc, csock, nedits, cshapes, conns, peerState, out, last>>
  /\ UNCHANGED <<hookVars, shapeVars, logVars, pageVars>>

\* Client c handles the next frame of the relay: a binary frame reaches
\* remoteUpdateHandler, a control message changes no replica.
SClientMessage(c) ==
  /\ csock[c] = "open"
  /\ s2c[c] # <<>>
  /\ s2c' = [s2c EXCEPT ![c] = Tail(@)]
  /\ LET f == Head(s2c[c])
         res == IF f.t = "bin" THEN RemoteUpdate(cdoc[c], f.u)
                ELSE [doc |-> cdoc[c], update |-> NoUpdate]
     IN /\ cdoc' = [cdoc EXCEPT ![c] = res.doc]
        /\ c2s' = [c2s EXCEPT ![c] =
                     SendAll(csock[c], @, Events(<<res.update>>))]
  /\ UNCHANGED <<csock, nedits, cshapes, relayVars>>
  /\ UNCHANGED <<hookVars, shapeVars, logVars, pageVars>>

\* Client c unmounts: its socket closes, the relay runs onClose once the
\* frames c sent before have been handled.
SDisconnect(c) ==
  /\ csock[c] = "open"
  /\ c2s[c] = <<>>
  /\ csock' = [csock EXCEPT ![c] = "closed"]
  /\ LET res == OnClose(doc[SyncRoom], conns[SyncRoom], c)
     IN /\ conns' = [conns EXCEPT ![SyncRoom] = @ \ {c}]
        /\ s2c' = [Deliver(res.sends) EXCEPT ![c] = <<>>]
  /\ peerState' = [peerState EXCEPT ![c] = "closed"]
  /\ UNCHANGED <<cdoc, c2s, nedits, cshapes, doc, out, last>>
  /\ UNCHANGED <<hookVars, shapeVars, logVars, pageVars>>

SyncNext ==
  \/ \E c \in Clients : SMount(c)
  \/ \E c \in Clients : SOpen(c)
  \/ \E c \in Clients : SRender(c)
  \/ \E c \in Clients : SAddShape(c)
  \/ \E c \in Clients, id \in ShapeIds : SUpdateShape(c, id)
  \/ \E c \in Clients, id \in ShapeIds : SDeleteShape(c, id)
  \/ \E c \in Clients : SRelayMessage(c)
  \/ \E c \in Clients : SClientMessage(c)
  \/ \E c \in Clients : SDisconnect(c)

(***************************************************************************)
(* One useYjsShapes, call by call: SpecShapes                              *)
(***************************************************************************)

MaxCalls == 2   \* calls of this client that change its replica

\* The client whose hook is observed.
Me == "p1"

\* Updates of another peer (clientID 2) that reach remoteUpdateHandler: it
\* pushes r1, pushes r2, deletes r1, and deletes the first shape of Me.
RemotePush == ArrayPush(EmptyDoc, 2, Shape("r1", 0))
RemotePush2 == ArrayPush(RemotePush.doc, 2, Shape("r2", 0))
RemoteDelete == ArrayDelete(RemotePush.doc, 0)
RemoteDeleteMine ==
  ArrayDelete(AddShape(EmptyDoc, ClientId(Me), RandomUUID(0)).doc, 0)

RemotePool ==
  {RemotePush.update, RemotePush2.update, RemoteDelete.update,
   RemoteDeleteMine.update}

\* The identifiers the consumer may pass to updateShape and deleteShape.
CallIds == {RandomUUID(n) : n \in 0..(MaxCalls - 1)} \cup {"r1", "r2", "none"}

\* The identifiers of the elements of an array.
IdsOf(arr) == {arr[i].id : i \in 1..Len(arr)}

\* React renders again after the observer called setShapes.
YRender ==
  /\ cshapes[Me] # yshapes
  /\ cshapes' = [cshapes EXCEPT ![Me] = yshapes]
  /\ ylast' = [NoCall EXCEPT !.op = "render"]
  /\ UNCHANGED <<cdoc, csock, c2s, s2c, nedits, yshapes>>
  /\ UNCHANGED <<relayVars, hookVars, logVars, pageVars>>

\* addShape(shape)
YAddShape ==
  /\ nedits < MaxCalls
  /\ nedits' = nedits + 1
  /\ LET res == AddShape(cdoc[Me], ClientId(Me), RandomUUID(nedits))
     IN /\ cdoc' = [cdoc EXCEPT ![Me] = res.doc]
        /\ ylast' = [op |-> "add", id |-> RandomUUID(nedits),
                     threw |-> FALSE, events |-> <<res.update>>]
        /\ yshapes' = Observer(yshapes, cdoc[Me], res.doc, "local")
  /\ UNCHANGED <<csock, c2s, s2c, cshapes>>
  /\ UNCHANGED <<relayVars, hookVars, logVars, pageVars>>

\* updateShape(id, updates)
YUpdateShape(id) ==
  /\ LET res == UpdateShape(cdoc[Me], cshapes[Me], ClientId(Me), id)
     IN /\ res.events # <<>> => nedits < MaxCalls
        /\ nedits' = IF res.events # <<>> THEN nedits + 1 ELSE nedits
        /\ cdoc' = [cdoc EXCEPT ![Me] = res.doc]
        /\ ylast' = [op |-> "update", id |-> id, threw |-> res.threw,
                     events |-> res.events]
        /\ yshapes' = Observer(yshapes, cdoc[Me], res.doc, "local")
  /\ UNCHANGED <<csock, c2s, s2c, cshapes>>
  /\ UNCHANGED <<relayVars, hookVars, logVars, pageVars>>

\* deleteShape(id)
YDeleteShape(id) ==
  /\ LET res == DeleteShapeById(cdoc[Me], cshapes[Me], id)
     IN /\ res.events # <<>> => nedits < MaxCalls
        /\ nedits' = IF res.events # <<>> THEN nedits + 1 ELSE nedits
        /\ cdoc' = [cdoc EXCEPT ![Me] = res.doc]
        /\ ylast' = [op |-> "delete", id |-> id, threw |-> res.threw,
                     events |-> res.events]
        /\ yshapes' = Observer(yshapes, cdoc[Me], res.doc, "local")
  /\ UNCHANGED <<csock, c2s, s2c, cshapes>>
  /\ UNCHANGED <<relayVars, hookVars, logVars, pageVars>>

\* An update of the other peer arrives: remoteUpdateHandler(update).
YRemote(u) ==
  /\ LET res == RemoteUpdate(cdoc[Me], u)
     IN /\ cdoc' = [cdoc EXCEPT ![Me] = res.doc]
        /\ ylast' = [op |-> "remote", id |-> "", threw |-> FALSE,
                     events |-> Events(<<res.update>>)]
        /\ yshapes' = Observer(yshapes, cdoc[Me], res.doc, "remote")
  /\ UNCHANGED <<csock, c2s, s2c, nedits, cshapes>>
  /\ UNCHANGED <<relayVars, hookVars, logVars, pageVars>>

ShapesNext ==
  \/ YRender
  \/ YAddShape
  \/ \E id \in CallIds : YUpdateShape(id)
  \/ \E id \in CallIds : YDeleteShape(id)
  \/ \E u \in RemotePool : YRemote(u)

(***************************************************************************)
(* The relay of one room and the history of its connections: SpecLog       *)
(***************************************************************************)

MaxMsgs == 2   \* frames the peers send to the relay, all peers together

\* The replica of a peer that pushed k shapes of its own.
RECURSIVE OwnDoc(_, _)
OwnDoc(p, k) ==
  IF k = 0 THEN EmptyDoc
  ELSE ArrayPush(OwnDoc(p, k - 1), ClientId(p), Shape(p, k - 1)).doc

\* The k-th frame of peer p (k from 0): the update of its k-th push or a
\* cursor message numbered k.
OwnFrame(p, k, kind) ==
  IF kind = "bin"
  THEN BinFrame(ArrayPush(OwnDoc(p, k), ClientId(p), Shape(p, k)).update)
  ELSE TextFrame("cursor", p, k)

\* A history with the frames sent first put last.
SentReversed(history, sends, op, from) ==
  [q \in Peers |->
     [i \in 1..Len(sends[q]) |-> [f |-> sends[q][i], op |-> op, from |-> from]]
       \o history[q]]

\* conn.send(frame) on each connection, in call order, after what was sent
\* on it before; op and from name the handler that made the calls.
Sent(history, sends, op, from) ==
  [q \in Peers |->
     history[q] \o
       [i \in 1..Len(sends[q]) |-> [f |-> sends[q][i], op |-> op, from |-> from]]]

LogInit ==
  /\ log = [p \in Peers |-> <<>>]
  /\ nsent = [p \in Peers |-> 0]

\* The frames the relay has handled so far.
TotalSent == nsent["p1"] + nsent["p2"] + nsent["p3"]

\* The runtime accepts p, registers it and calls onConnect.
LConnect(p) ==
  /\ peerState[p] = "new"
  /\ LET cs == conns[SyncRoom] \cup {p}
         res == OnConnect(doc[SyncRoom], cs, p)
     IN /\ conns' = [conns EXCEPT ![SyncRoom] = cs]
        /\ doc' = [doc EXCEPT ![SyncRoom] = res.doc]
        /\ out' = res.sends
        /\ log' = Sent(log, res.sends, "connect", p)
  /\ peerState' = [peerState EXCEPT ![p] = "open"]
  /\ last' = [op |-> "connect", peer |-> p, room |-> SyncRoom,
              frame |-> NoFrame]
  /\ UNCHANGED nsent
  /\ UNCHANGED <<hookVars, syncVars, shapeVars, pageVars>>

\* The next frame of p arrives: onMessage.
LMessage(p, kind) ==
  /\ peerState[p] = "open"
  /\ TotalSent < MaxMsgs
  /\ LET f == OwnFrame(p, nsent[p], kind)
         res == OnMessage(doc[SyncRoom], conns[SyncRoom], f, p)
     IN /\ doc' = [doc EXCEPT ![SyncRoom] = res.doc]
        /\ out' = res.sends
        /\ log' = Sent(log, res.sends, "message", p)
        /\ last' = [op |-> "message", peer |-> p, room |-> SyncRoom,
                    frame |-> f]
  /\ nsent' = [nsent EXCEPT ![p] = @ + 1]
  /\ UNCHANGED <<conns, peerState>>
  /\ UNCHANGED <<hookVars, syncVars, shapeVars, pageVars>>

\* The connection of p closes: onClose.
LClose(p) ==
  /\ peerState[p] = "open"
  /\ LET res == OnClose(doc[SyncRoom], conns[SyncRoom], p)
     IN /\ doc' = [doc EXCEPT ![SyncRoom] = res.doc]
        /\ out' = res.sends
        /\ log' = Sent(log, res.sends, "close", p)
        /\ conns' = [conns EXCEPT ![SyncRoom] = @ \ {p}]
        /\ last' = [op |-> "close", peer |-> p, room |-> SyncRoom,
                    frame |-> NoFrame]
  /\ peerState' = [peerState EXCEPT ![p] = "closed"]
  /\ UNCHANGED nsent
  /\ UNCHANGED <<hookVars, syncVars, shapeVars, pageVars>>

\* The connection of p ends with a transport error: onError.
LError(p) ==
  /\ peerState[p] = "open"
  /\ LET res == OnError(doc[SyncRoom], conns[SyncRoom], p)
     IN /\ doc' = [doc EXCEPT ![SyncRoom] = res.doc]
        /\ out' = res.sends
        /\ log' = Sent(log, res.sends, "error", p)
        /\ conns' = [conns EXCEPT ![SyncRoom] = @ \ {p}]
        /\ last' = [op |-> "error", peer |-> p, room |-> SyncRoom,
                    frame |-> NoFrame]
  /\ peerState' = [peerState EXCEPT ![p] = "closed"]
  /\ UNCHANGED nsent
  /\ UNCHANGED <<hookVars, syncVars, shapeVars, pageVars>>

LogNext ==
  \/ \E p \in Peers : LConnect(p)
  \/ \E p \in Peers, kind \in {"bin", "text"} : LMessage(p, kind)
  \/ \E p \in Peers : LClose(p)
  \/ \E p \in Peers : LError(p)

(***************************************************************************)
(* The canvas page and its list of other users: SpecPresence               *)
(***************************************************************************)

\* currentUser.id of the page of client c: a crypto.randomUUID() drawn when
\* the module loads. The id of its connection is another random identifier,
\* drawn by PartySocket; the relay sees the latter as conn.id.
UserId(c) == IF c = "p1" THEN "u1" ELSE IF c = "p2" THEN "u2" ELSE "u3"

\* The cursor message send() stringifies in handlePointerMove.
CursorMessage(c) == JSONStringify("cursor", UserId(c), 0)

\* The onMessage the page passes to usePartyKit, as a function of the
\* otherUsers state: a cursor message adds its userId unless it is there, a
\* user-left message filters its userId out, anything else changes nothing.
PageOnMessage(users, f) ==
  IF f.t = "text" /\ f.kind = "cursor"
  THEN IF \E i \in 1..Len(users) : users[i] = f.id THEN users
       ELSE Append(users, f.id)
  ELSE IF f.t = "text" /\ f.kind = "user-left"
       THEN SelectSeq(users, LAMBDA u : u # f.id)
       ELSE users

PageInit == otherUsers = [c \in Clients |-> <<>>]

\* The pointer moves over the page of c while it is connected: send(cursor).
PCursor(c) ==
  /\ csock[c] = "open"
  /\ TotalSent < MaxMsgs
  /\ nsent' = [nsent EXCEPT ![c] = @ + 1]
  /\ c2s' = [c2s EXCEPT ![c] = Append(@, CursorMessage(c))]
  /\ UNCHANGED <<cdoc, csock, s2c, nedits, cshapes, log>>
  /\ UNCHANGED <<relayVars, hookVars, shapeVars, pageVars>>

\* The page of c handles the next frame of the relay.
PClientMessage(c) ==
  /\ csock[c] = "open"
  /\ s2c[c] # <<>>
  /\ s2c' = [s2c EXCEPT ![c] = Tail(@)]
  /\ otherUsers' = [otherUsers EXCEPT ![c] = PageOnMessage(@, Head(s2c[c]))]
  /\ UNCHANGED <<cdoc, csock, c2s, nedits, cshapes>>
  /\ UNCHANGED <<relayVars, hookVars, shapeVars, logVars>>

PresenceNext ==
  \/ \E c \in Clients : SMount(c)
  \/ \E c \in Clients : SOpen(c)
  \/ \E c \in Clients : PCursor(c)
  \/ \E c \in Clients : SRelayMessage(c)
  \/ \E c \in Clients : PClientMessage(c)
  \/ \E c \in Clients : SDisconnect(c)

(***************************************************************************)
(* Two connected clients adding concurrently: SpecConcurrent               *)
(***************************************************************************)

\* Replicas an earlier peer (clientID 3) left in the room: empty, one shape,
\* two shapes, two shapes of which the first was deleted.
BasePush == ArrayPush(EmptyDoc, 3, Shape("b1", 0))
BasePush2 == ArrayPush(BasePush.doc, 3, Shape("b2", 0))
BaseDocs ==
  {EmptyDoc, BasePush.doc, BasePush2.doc, ArrayDelete(BasePush2.doc, 0).doc}

\* The items of a replica that the client with this clientID created.
ItemsBy(d, client) == {i \in 1..Len(d.list) : d.list[i].id[1] = client}

\* Both clients are connected and bootstrapped: their replicas and the
\* relay's are the same base, nothing is in flight.
ConcInit ==
  /\ \E base \in BaseDocs :
       /\ doc = [r \in Rooms |-> IF r = SyncRoom THEN base ELSE EmptyDoc]
       /\ cdoc = [c \in Clients |-> base]
       /\ cshapes = [c \in Clients |-> ToArray(base)]
       /\ yshapes = ToArray(base)
  /\ conns = [r \in Rooms |-> IF r = SyncRoom THEN Clients ELSE {}]
  /\ peerState = [p \in Peers |-> IF p \in Clients THEN "open" ELSE "new"]
  /\ out = NoSends
  /\ last = [op |-> "init", peer |-> "", room |-> "", frame |-> NoFrame]
  /\ HookInit
  /\ csock = [c \in Clients |-> "open"]
  /\ c2s = [c \in Clients |-> <<>>]
  /\ s2c = [c \in Clients |-> <<>>]
  /\ nedits = 0
  /\ ylast = NoCall
  /\ LogInit
  /\ PageInit

\* Client c adds its shape before it has merged any update of the other.
CAddShape(c) ==
  /\ ItemsBy(cdoc[c], ClientId(c)) = {}
  /\ \A o \in Clients \ {c} : ItemsBy(cdoc[c], ClientId(o)) = {}
  /\ SAddShape(c)

ConcNext ==
  \/ \E c \in Clients : CAddShape(c)
  \/ \E c \in Clients : SRelayMessage(c)
  \/ \E c \in Clients : SClientMessage(c)

(***************************************************************************)
(* Connected clients editing the same shapes: SpecConflict                 *)
(***************************************************************************)

\* The identifiers of the shapes the earlier peer left.
BaseIds == {"b1", "b2"}

\* From ConcInit: the clients add, update and delete shapes within one
\* render and exchange the updates through the relay; nobody connects or
\* disconnects.
ConflictNext ==
  \/ \E c \in Clients : SAddShape(c)
  \/ \E c \in Clients, id \in BaseIds : SUpdateShape(c, id)
  \/ \E c \in Clients, id \in BaseIds : SDeleteShape(c, id)
  \/ \E c \in Clients : SRelayMessage(c)
  \/ \E c \in Clients : SClientMessage(c)

\* Some frame in flight is handled: by onMessage of the relay or by the
\* message listener of a client.
HandleFrame ==
  \/ \E c \in Clients : SRelayMessage(c)
  \/ \E c \in Clients : SClientMessage(c)

\* While frames are in flight the runtime and the browsers keep dispatching
\* them to their handlers.
ConflictFairness == WF_vars(HandleFrame)

(***************************************************************************)
(* A deletion and a concurrent update of one shape: SpecDeleteUpdate       *)
(***************************************************************************)

\* The client other than the one whose calls are recorded.
Other == CHOOSE c \in Clients : c # Me

\* Me calls deleteShape(id) on the replica as rendered, before it has merged
\* anything of the other client.
DDeleteShape(id) ==
  /\ ylast = NoCall
  /\ ToArray(cdoc[Me]) = cshapes[Me]
  /\ nedits < MaxEdits
  /\ nedits' = nedits + 1
  /\ LET res == DeleteShapeById(cdoc[Me], cshapes[Me], id)
     IN /\ res.events # <<>>
        /\ cdoc' = [cdoc EXCEPT ![Me] = res.doc]
        /\ c2s' = [c2s EXCEPT ![Me] = SendAll(csock[Me], @, res.events)]
        /\ ylast' = [op |-> "delete", id |-> id, threw |-> res.threw,
                     events |-> res.events]
  /\ UNCHANGED <<csock, s2c, cshapes, yshapes>>
  /\ UNCHANGED <<relayVars, hookVars, logVars, pageVars>>

\* The other client calls updateShape(id, updates) on the replica as rendered,
\* before it has merged anything of Me.
DUpdateShape(id) ==
  /\ ToArray(cdoc[Other]) = cshapes[Other]
  /\ SUpdateShape(Other, id)

DeleteUpdateNext ==
  \/ \E id \in BaseIds : DDeleteShape(id)
  \/ \E id \in BaseIds : DUpdateShape(id)
  \/ \E c \in Clients : SRelayMessage(c)
  \/ \E c \in Clients : SClientMessage(c)

(***************************************************************************)
(* Specifications                                                          *)
(***************************************************************************)

Init == RelayInit /\ HookInit /\ SyncInit /\ LogInit /\ PageInit

\* The relay under arbitrary peers.
SpecRelay == Init /\ [][RelayNext]_vars

\* One consumer of the connection hook.
SpecHook == Init /\ [][HookNext]_vars

\* Clients editing shapes through the relay.
SpecSync == Init /\ [][SyncNext]_vars

\* Two bootstrapped clients that each add one shape concurrently.
SpecConcurrent == ConcInit /\ [][ConcNext]_vars

\* The relay of one room, with the history of every connection.
SpecLog == Init /\ [][LogNext]_vars

\* One useYjsShapes under local calls, remote updates and renders.
SpecShapes == Init /\ [][ShapesNext]_vars

\* Two bootstrapped clients editing the shapes they share.
SpecConflict == ConcInit /\ [][ConflictNext]_vars

\* One client deletes a shape while the other updates a shape.
SpecDeleteUpdate == ConcInit /\ [][DeleteUpdateNext]_vars

\* The same, with every frame in flight handled eventually.
SpecQuiesce == ConcInit /\ [][ConflictNext]_vars /\ ConflictFairness

\* The pages of the clients of one room showing each other's cursor.
SpecPresence == Init /\ [][PresenceNext]_vars

Spec == SpecSync

(***************************************************************************)
(* Properties                                                              *)
(***************************************************************************)

\* C1 (broadcast exclusion): when onMessage has handled a binary update or a
\* text frame that parses as JSON from peer P, every other connection of P's
\* room was sent exactly that frame, and P was sent nothing.
C1_BroadcastExclusion ==
  (last.op = "message"
     /\ (last.frame.kind = "update" \/ JSONParses(last.frame)))
  => /\ \A q \in conns[last.room] \ {last.peer} : out[q] = <<last.frame>>
     /\ out[last.peer] = <<>>

\* C1: a binary update was relayed in a room with two other peers.
C1_Witness ==
  /\ last.op = "message"
  /\ last.frame.kind = "update"
  /\ Cardinality(conns[last.room]) = 3

\* C3 (bootstrap completeness): the first frame onConnect sends to the joiner
\* is a binary snapshot which, applied to an empty replica, gives exactly the
\* shapes of the room's replica.
C3_BootstrapCompleteness ==
  last.op = "connect"
  => /\ Len(out[last.peer]) >= 1
     /\ out[last.peer][1].t = "bin"
     /\ out[last.peer][1].kind = "update"
     /\ ToArray(ApplyUpdate(EmptyDoc, out[last.peer][1].u))
          = ToArray(doc[last.room])

\* C3: a peer joins a room that holds two shapes and a deleted one, after
\* every earlier peer of the room has gone.
C3_Witness ==
  /\ last.op = "connect"
  /\ conns[last.room] = {last.peer}
  /\ Len(ToArray(doc[last.room])) = 2
  /\ doc[last.room].del # {}

\* C4 (disconnect notification), as claimed: whenever a connection goes from
\* open to closed, every other connection of its room is sent exactly one
\* user-left message with its id.
C4_DisconnectNotification ==
  [][\A p \in Peers :
       (peerState[p] = "open" /\ peerState'[p] = "closed")
       => \A q \in conns[RoomOf(p)] \ {p} :
            out'[q] = <<JSONStringify("user-left", p, 0)>>]_vars

\* C5 (malformed input isolation): handling a text frame that is not JSON
\* sends nothing to anyone, closes no connection and leaves the connection
\* sets and the replicas as they were.
C5_MalformedInputIsolation ==
  [][(last'.op = "message" /\ last'.frame.t = "text"
        /\ ~JSONParses(last'.frame))
     => (out' = NoSends /\ conns' = conns /\ peerState' = peerState
           /\ doc' = doc)]_vars

\* C5: non-JSON text was handled while another peer was in the sender's room.
C5_Witness ==
  /\ last.op = "message"
  /\ last.frame.t = "text"
  /\ ~JSONParses(last.frame)
  /\ Cardinality(conns[last.room]) >= 2

\* C6 (sync count), as claimed: the sync message of onConnect carries the
\* number of connections of the room other than the joiner.
C6_SyncCount ==
  last.op = "connect"
  => out[last.peer][2]
       = JSONStringify("sync", "", Cardinality(conns[last.room] \ {last.peer}))

\* C2 (eventual convergence), as claimed: once no frame is in flight in
\* either direction, the replica of every connected client shows the shapes
\* of the relay's replica.
C2_Convergence ==
  (\A c \in Clients : c2s[c] = <<>> /\ s2c[c] = <<>>)
  => \A c \in conns[SyncRoom] : ToArray(cdoc[c]) = ToArray(doc[SyncRoom])

\* The hook's current connection is open.
CurrentOpen == socket # 0 /\ socks[socket].ready = "open"

\* C7 (send while not open), as claimed: a send made while the current
\* connection is not open hands nothing to any socket.
C7_SendWhileNotOpen ==
  [][(hlast'.op = "send" /\ ~CurrentOpen) => wire' = wire]_vars

\* C7, amended: a send made while the hook's socket state is null hands
\* nothing to any socket; a send made once the state holds a socket hands
\* exactly one payload to that socket, open or not.
C7_SendWithoutSocket ==
  [][hlast'.op = "send"
     => IF socket = 0 THEN wire' = wire
        ELSE /\ Len(wire') = Len(wire) + 1
             /\ SubSeq(wire', 1, Len(wire)) = wire
             /\ wire'[Len(wire')].sock = socket]_vars

\* C7: send was called before the connection effect had run.
C7_Witness ==
  /\ hlast.op = "send"
  /\ hlast.sock = 0
  /\ hookPhase = "rendered"
  /\ wire = <<>>

Invoked(name) == \E i \in 1..Len(cbs) : cbs[i].cb = name

\* C8 (client receive channels), as claimed: for a text frame, onMessage is
\* invoked exactly when the frame parses, onError exactly when it does not,
\* never both.
C8_ReceiveChannels ==
  (hlast.op = "message" /\ hlast.ev.rep = "string")
  => /\ Invoked("onMessage") <=> JSONParses(hlast.ev.frame)
     /\ Invoked("onError") <=> ~JSONParses(hlast.ev.frame)
     /\ ~(Invoked("onMessage") /\ Invoked("onError"))

\* A socket on which close() was not called and that has not closed.
Live(sk) == ~sk.closeCalled /\ sk.ready # "closed"

\* C9 (single live connection): at most one socket of the consumer is live;
\* when a socket is created none of the earlier ones is live; after unmount
\* none is live and none is open.
C9_SingleLiveConnection ==
  [][/\ Cardinality({i \in 1..Len(socks') : Live(socks'[i])}) <= 1
     /\ Len(socks') > Len(socks)
          => \A i \in 1..Len(socks) : ~Live(socks'[i])
     /\ hookPhase' = "unmounted"
          => \A i \in 1..Len(socks') :
               ~Live(socks'[i]) /\ socks'[i].ready # "open"]_vars

\* C9: the room changed once and the consumer then unmounted; both sockets
\* had close() called on them, the second one while it was connected.
C9_Witness ==
  /\ hookPhase = "unmounted"
  /\ hlast.op = "unmount"
  /\ Len(socks) = 2
  /\ socks[1].closeCalled
  /\ socks[2].closeCalled
  /\ socks[2].ready = "closing"
  /\ isConnected

\* C10 (connection status flag), as claimed: while mounted, isConnected is
\* true exactly when the most recently created socket is open.
C10_StatusFlag ==
  hookPhase # "unmounted"
  => (isConnected <=> (Len(socks) > 0 /\ socks[Len(socks)].ready = "open"))

\* C11 (missing-id no-op), as claimed: updateShape or deleteShape called with
\* an identifier that no element of the replica carries throws nothing,
\* leaves the replica as it was and hands no update to send.
C11_MissingIdNoOp ==
  [][(ylast'.op \in {"update", "delete"}
        /\ ylast'.id \notin IdsOf(ToArray(cdoc[Me])))
     => (~ylast'.threw /\ cdoc' = cdoc /\ ylast'.events = <<>>)]_vars

\* C13 (local mutations propagate), as claimed: addShape, and updateShape or
\* deleteShape called with an identifier the replica holds, changes the
\* replica and hands at least one update to send before it returns.
C13_LocalMutationsPropagate ==
  [][(\/ ylast'.op = "add"
      \/ /\ ylast'.op \in {"update", "delete"}
         /\ ylast'.id \in IdsOf(ToArray(cdoc[Me])))
     => (/\ ~ylast'.threw
         /\ cdoc'[Me] # cdoc[Me]
         /\ Len(ylast'.events) >= 1)]_vars

\* C14 (addShape appends): addShape leaves the elements of the array and
\* their order as they were and adds one element at the end, whose
\* identifier no element of the array carried.
C14_AddShapeAppends ==
  [][ylast'.op = "add"
     => LET before == ToArray(cdoc[Me])
            after == ToArray(cdoc'[Me])
        IN /\ Len(after) = Len(before) + 1
           /\ SubSeq(after, 1, Len(before)) = before
           /\ after[Len(after)] = Shape(ylast'.id, 0)
           /\ ylast'.id \notin IdsOf(before)]_vars

\* C14: a shape was added to an array that held a local and a remote shape
\* and a deleted one.
C14_Witness ==
  /\ ylast.op = "add"
  /\ Len(ToArray(cdoc[Me])) = 3
  /\ cdoc[Me].del # {}
  /\ "r2" \in IdsOf(ToArray(cdoc[Me]))

\* The elements of an array that the earlier peer left, in order.
BaseShapes(arr) == SelectSeq(arr, LAMBDA e : e.id \in {"b1", "b2"})

\* The elements of an array that the two clients added, in order.
AddedShapes(arr) == SelectSeq(arr, LAMBDA e : e.id \notin {"b1", "b2"})

\* Both clients have added their shape and every frame was handled.
BothMerged ==
  /\ \A c \in Clients : ItemsBy(cdoc[c], ClientId(c)) # {}
  /\ \A c \in Clients : c2s[c] = <<>> /\ s2c[c] = <<>>

\* C12 (concurrent additions): no step changes the shapes that were there
\* before in any replica, and once both concurrent additions are exchanged
\* and merged, the two clients' replicas and the relay's hold, besides those,
\* exactly s1 and s2, each once.
C12_ConcurrentAdditions ==
  [][/\ \A c \in Clients :
          BaseShapes(ToArray(cdoc'[c])) = BaseShapes(ToArray(cdoc[c]))
     /\ BaseShapes(ToArray(doc'[SyncRoom])) = BaseShapes(ToArray(doc[SyncRoom]))
     /\ BothMerged'
          => \A d \in {cdoc'[c] : c \in Clients} \cup {doc'[SyncRoom]} :
               /\ Len(AddedShapes(ToArray(d))) = 2
               /\ IdsOf(AddedShapes(ToArray(d))) = {"s1", "s2"}]_vars

\* C12: both additions are merged everywhere, on top of two earlier shapes
\* of which one is deleted.
C12_Witness ==
  /\ BothMerged
  /\ doc[SyncRoom].del # {}
  /\ Len(ToArray(doc[SyncRoom])) = 3

\* C15 (room isolation): whatever a handler of one room sends goes to
\* connections of that room only, and the replica of every other room, hence
\* the snapshot its joiners get, stays as it was.
C15_RoomIsolation ==
  [][last'.op # "init"
     => /\ \A q \in Peers :
             out'[q] # <<>> => q \in conns[last'.room] \cup conns'[last'.room]
        /\ \A r \in Rooms \ {last'.room} :
             /\ doc'[r] = doc[r]
             /\ EncodeStateAsUpdate(doc'[r]) = EncodeStateAsUpdate(doc[r])]_vars

\* C15: an update was relayed in one room while the other room had a peer
\* and a different replica.
C15_Witness ==
  /\ last.op = "message"
  /\ last.frame.kind = "update"
  /\ \E q \in Peers : out[q] # <<>>
  /\ \E r \in Rooms \ {last.room} : conns[r] # {} /\ doc[r] # doc[last.room]

\* The snapshot of replica d carries everything update u carries.
SnapshotHolds(d, u) ==
  /\ u.structs \subseteq EncodeStateAsUpdate(d).structs
  /\ u.ds \subseteq EncodeStateAsUpdate(d).ds

\* C16 (merge before forward): a binary update that a handler broadcasts is
\* in the room's replica when the handler ends, and what a replica's
\* snapshot holds it holds ever after; so every update delivered by broadcast
\* is in the snapshot of any later joiner.
C16_MergeBeforeForward ==
  [][/\ (last'.op = "message" /\ last'.frame.kind = "update"
           /\ \E q \in Peers : out'[q] # <<>>)
          => SnapshotHolds(doc'[last'.room], last'.frame.u)
     /\ \A r \in Rooms, u \in UpdatePool :
          SnapshotHolds(doc[r], u) => SnapshotHolds(doc'[r], u)]_vars

\* C16: an update whose predecessor the relay never got (it stays pending)
\* was broadcast to another peer.
C16_Witness ==
  /\ last.op = "message"
  /\ last.frame = BinFrame(PushA2.update)
  /\ doc[last.room].pend # {}
  /\ \E q \in Peers : out[q] # <<>>

\* C17 (the relay never originates edits): the replica of a room changes
\* only in onMessage of a binary frame of that room; connect, text, close
\* and error leave every replica as it was.
C17_RelayNeverOriginates ==
  [][\A r \in Rooms :
       doc'[r] # doc[r]
       => (last'.op = "message" /\ last'.frame.t = "bin" /\ last'.room = r)]_vars

\* C17: the last peer of a room that holds shapes has gone.
C17_Witness ==
  /\ last.op \in {"close", "error"}
  /\ conns[last.room] = {}
  /\ Len(ToArray(doc[last.room])) >= 1

\* C18 (connect is silent for others): onConnect sends to the joiner and to
\* nobody else.
C18_ConnectSilent ==
  last.op = "connect"
  => /\ out[last.peer] # <<>>
     /\ \A q \in Peers \ {last.peer} : out[q] = <<>>

\* C18: a peer joined a room in which two peers were connected.
C18_Witness ==
  /\ last.op = "connect"
  /\ Cardinality(conns[last.room]) = 3

\* C19 (bootstrap ordering): on every connection the first frame sent is the
\* snapshot and the second the sync message, both by onConnect; nothing
\* after them is sent by onConnect or is a sync message, and nothing is sent
\* on a connection before its onConnect.
C19_BootstrapOrdering ==
  \A q \in Peers :
    IF peerState[q] = "new" THEN log[q] = <<>>
    ELSE /\ Len(log[q]) >= 2
         /\ log[q][1].op = "connect" /\ log[q][1].from = q
         /\ log[q][1].f.t = "bin"
         /\ log[q][2].op = "connect" /\ log[q][2].from = q
         /\ log[q][2].f.t = "text" /\ log[q][2].f.kind = "sync"
         /\ \A i \in 3..Len(log[q]) :
              /\ log[q][i].op \in {"message", "close"}
              /\ log[q][i].from # q
              /\ log[q][i].f.kind # "sync"

\* C19: a connection got its snapshot and sync, then a relayed update, a
\* relayed cursor message and a user-left.
C19_Witness ==
  \E q \in Peers :
    /\ Len(log[q]) >= 5
    /\ \E i \in 3..Len(log[q]) : log[q][i].f.t = "bin"
    /\ \E i \in 3..Len(log[q]) : log[q][i].f.kind = "cursor"
    /\ \E i \in 3..Len(log[q]) : log[q][i].f.kind = "user-left"

\* The number of a peer's frame among the frames that peer sent.
SeqOf(f) ==
  IF f.t = "text" THEN f.n ELSE (CHOOSE it \in f.u.structs : TRUE).id[2]

C21_UpdateInPlace ==
  [][(ylast'.op = "update" /\ ylast'.id \in IdsOf(ToArray(cdoc[Me])))
     => LET before == ToArray(cdoc[Me])
            after == ToArray(cdoc'[Me])
            i == FindIndex(before, ylast'.id) + 1
        IN /\ ~ylast'.threw
           /\ Len(after) = Len(before)
           /\ \A j \in 1..Len(before) :
                after[j] = IF j = i THEN [before[j] EXCEPT !.x = 1]
                           ELSE before[j]]_vars

\* C22 (deleteShape removes its element only), as claimed: deleteShape(id)
\* leaves in the replica exactly the elements that carried another
\* identifier, in their order, however old the rendered list is.
C22_DeleteExactly ==
  [][ylast'.op = "delete"
     => ToArray(cdoc'[Me])
          = SelectSeq(ToArray(cdoc[Me]), LAMBDA e : e.id # ylast'.id)]_vars

\* C23 (no echo), as claimed: merging an inbound binary update hands nothing
\* to send; only addShape, updateShape and deleteShape do.
C23_NoEcho ==
  [][ylast'.op = "remote" => ylast'.events = <<>>]_vars

\* C29 (derived list tracks the replica), as claimed: after every call and
\* every merged update the shapes list the hook exposes is the array of the
\* replica.
C29_ListEqualsReplica == cshapes[Me] = ToArray(cdoc[Me])

\* C29, amended: every call and every merged update ends with the array of
\* the replica passed to setShapes, and the list the hook exposes is that
\* array once React has rendered again.
C29_ListTracksReplica ==
  [][/\ yshapes' = ToArray(cdoc'[Me])
     /\ ylast'.op = "render" => cshapes'[Me] = ToArray(cdoc'[Me])]_vars

\* C29: the hook rendered an array of two shapes or more once all its local
\* calls were made and an item of the replica was deleted.
C29_Witness ==
  /\ ylast.op = "render"
  /\ cdoc[Me].del # {}
  /\ nedits = MaxCalls
  /\ Len(cshapes[Me]) >= 2

\* No frame is waiting for the relay's onMessage or for a client's handler.
Quiet == \A c \in Clients : c2s[c] = <<>> /\ s2c[c] = <<>>

\* C24 (quiescence): with the clients of the room connected and finitely
\* many local mutations, the system reaches a state from which no frame is
\* in flight any more.
C24_Quiescence == <>[]Quiet

\* C24: every mutation allowed was made, by both clients, each replica
\* merged the other client's items, and nothing is in flight.
C24_Witness ==
  /\ Quiet
  /\ nedits = MaxEdits
  /\ \A c \in Clients, o \in Clients : ItemsBy(cdoc[c], ClientId(o)) # {}
  /\ \A c \in Clients : ItemsBy(doc[SyncRoom], ClientId(c)) # {}

\* No two elements of the array carry the same identifier.
UniqueIds(arr) == \A i, j \in 1..Len(arr) : arr[i].id = arr[j].id => i = j

\* C25 (identifier uniqueness), as claimed: in the replica of every client
\* and of the relay, in every reachable state, no two shapes carry the same
\* identifier.
C25_UniqueIds ==
  /\ \A c \in Clients : UniqueIds(ToArray(cdoc[c]))
  /\ UniqueIds(ToArray(doc[SyncRoom]))

\* C26 (a deletion is not undone), as claimed: when one client deleted a
\* shape and the other updated the same shape, neither having merged the
\* other's call, then once nothing is in flight no replica holds a shape
\* with that identifier.
C26_DeletionWins ==
  (/\ Quiet
   /\ ylast.op = "delete"
   /\ \E it \in ItemsBy(cdoc[Other], ClientId(Other)) :
        cdoc[Other].list[it].content.id = ylast.id)
  => \A d \in {cdoc[c] : c \in Clients} \cup {doc[SyncRoom]} :
       ylast.id \notin IdsOf(ToArray(d))

\* C27 (client delivery order), as claimed: the consumer's onMessage gets the
\* inbound frames in the order of their arrival: a frame is handed to it
\* only when no earlier frame is still waiting for its Blob conversion, and
\* of the waiting frames the earliest is handed over first.
C27_DeliveryOrder ==
  [][(\E i \in 1..Len(cbs') : cbs'[i].cb = "onMessage")
     => IF hlast'.op = "blob" THEN blobs' = Tail(blobs)
        ELSE blobs = <<>>]_vars

\* C28 (departed peers disappear), as claimed: once a peer has disconnected
\* and a client has handled every frame the relay sent it, the client's list
\* of other users does not show that peer.
C28_DepartedPeersRemoved ==
  \A c \in Clients, p \in Clients :
    (p # c /\ csock[p] = "closed" /\ csock[c] = "open" /\ s2c[c] = <<>>)
    => \A i \in 1..Len(otherUsers[c]) : otherUsers[c][i] # UserId(p)

====
